---- MODULE Spec2Model ----
(***************************************************************************)
(* Pico SHT-30 telemetry firmware: the SHT-30 driver (sht30.py) and the    *)
(* acquisition loop with its motion and light state (main.py).             *)
(*                                                                         *)
(* Conventions                                                             *)
(*  - Physical values are exact rationals kept as numerators over SCALE    *)
(*    (65535): the driver divides by 65535 and nothing else, so            *)
(*    temperature = n / 65535 is stored as n.                              *)
(*  - time.time() is the integer variable now (whole seconds).             *)
(*  - main() calls sensor.read_temperature_humidity(), which only the      *)
(*    driver class of sht30.py defines, so the sensor of the loop is that  *)
(*    driver; the names main() shares with check_motion_sensor and the     *)
(*    light code are the module-level variables of main.py.                *)
(***************************************************************************)
EXTENDS Integers, Sequences, FiniteSets, TLC

VARIABLES
    \* ---- sht30.py: one call of the driver --------------------------------
    repeatability,      \* argument of measure()
    bus_fault,          \* which bus operation raises: "none", "write", "read"
    raw_temp,           \* the device's 16-bit temperature count
    raw_hum,            \* the device's 16-bit humidity count
    noise_temp,         \* damage to the temperature check byte on the wire
    noise_hum,          \* damage to the humidity check byte on the wire
    bus_frame,          \* the 6 bytes read back, <<>> if none were read
    devices,            \* the addresses i2c.scan() reports
    dpc,                \* where the driver's caller is: "idle" (no call);
                        \* "call" before and "done" after measure(); "new"
                        \* before SHT30(i2c), "ready"/"absent" after;
                        \* "call_reset"/"reset_done" around soft_reset();
                        \* "call_read_data"/"read_data_done" around the
                        \* read_data() of the SHT30 class of main.py
    crc_temp,           \* _crc8(data[:2]) as computed by measure(), -1 if not
    crc_hum,            \* _crc8(data[3:5]) as computed by measure(), -1 if not
    result,             \* what measure() gave back to its caller
    bus_log,            \* bus operations and waits of the call, in order
    \* ---- config.py: the configured values ---------------------------------
    READING_INTERVAL,
    PIR_TIMEOUT,
    MAX_CONSECUTIVE_ERRORS,
    LIGHT_THRESHOLD_LOW,
    LIGHT_THRESHOLD_HIGH,
    LIGHT_READING_INTERVAL,
    \* ---- main.py: module state and the locals of main() -------------------
    pc,                 \* "start" (main() begins), "stopped" (main()
                        \* returned before its loop), "loop" (in the while
                        \* loop), "reset" (machine.reset() was called),
                        \* "off" (main() not running),
                        \* "classify"/"classified" (one call of
                        \* determine_light_state)
    now,                \* time.time()
    motion_detected,
    last_motion_time,
    motion_state_sent,
    light_level_percent,
    last_light_reading,
    last_light_state,
    current_light_state,
    error_count,
    last_sensor_reading,
    \* ---- environment and observation --------------------------------------
    faults,             \* kinds of fault that can occur in this run
    io,                 \* what the last loop iteration did, in order
    prev_error_count,   \* error_count when the last iteration began
    failed_cycles,      \* consecutive failed full sensor cycles so far
    reset_calls,        \* calls of machine.reset() so far
    motion_events,      \* motion events emitted since the state last changed
    last_measure_time,  \* when read_temperature_humidity() was last called,
                        \* -1 before the first call
    prev_light_state,   \* last_light_state when the last iteration began
    light_flips,        \* consecutive light-sampling cycles so far that each
                        \* published a classification other than the one
                        \* published before it (counted up to 2)
    horizon,            \* how many motion samples of the run are recorded
    samples,            \* the first `horizon` motion samples of the run
    motion_seen,        \* whether a motion sample of the run was true
    first_motion_event, \* the first motion event the run emitted, or "none"
    quiet,              \* whether the motion line reads false from now on
    light_failures,     \* consecutive failed light publish attempts so far
                        \* (counted up to 2)
    history             \* whether first_motion_event and light_failures
                        \* are recorded in this run

configVars == <<READING_INTERVAL, PIR_TIMEOUT, MAX_CONSECUTIVE_ERRORS,
                LIGHT_THRESHOLD_LOW, LIGHT_THRESHOLD_HIGH, LIGHT_READING_INTERVAL>>

motionVars == <<motion_detected, last_motion_time, motion_state_sent>>

lightVars == <<light_level_percent, last_light_reading, last_light_state,
               current_light_state>>

loopVars == <<pc, now, motionVars, lightVars, error_count, last_sensor_reading>>

obsVars == <<faults, io, prev_error_count, failed_cycles, reset_calls,
             motion_events, last_measure_time, prev_light_state, light_flips,
             horizon, samples, motion_seen, first_motion_event, quiet,
             light_failures, history>>

driverVars == <<repeatability, bus_fault, raw_temp, raw_hum, noise_temp,
                noise_hum, devices, bus_frame, dpc, crc_temp, crc_hum, result,
                bus_log>>

vars == <<driverVars, configVars, loopVars, obsVars>>

(***************************************************************************)
(* Bit arithmetic on non-negative integers                                 *)
(***************************************************************************)
Byte == 0..255
Word == 0..65535

\* a ^ b, four bits at a time
RECURSIVE BitXor1(_, _)
BitXor1(a, b) ==
    IF a = 0 THEN b
    ELSE IF b = 0 THEN a
    ELSE (((a % 2) + (b % 2)) % 2) + 2 * BitXor1(a \div 2, b \div 2)

NibbleXor == [a \in 0..15 |-> [b \in 0..15 |-> BitXor1(a, b)]]

RECURSIVE BitXor(_, _)
BitXor(a, b) ==
    IF a = 0 THEN b
    ELSE IF b = 0 THEN a
    ELSE NibbleXor[a % 16][b % 16] + 16 * BitXor(a \div 16, b \div 16)

\* x & 0x80 # 0
HighBitSet(x) == (x \div 128) % 2 = 1

Join16_Swapped(hi, lo) == lo * 256 + hi

\* (hi << 8) | lo for two bytes
Join16(hi, lo) == hi * 256 + lo

(***************************************************************************)
(* sht30.py: SHT30._crc8                                                   *)
(***************************************************************************)
\* the inner "for _ in range(8)" loop: the register is NOT masked here
RECURSIVE Crc8Shift(_, _)
Crc8Shift(crc, n) ==
    IF n = 0 THEN crc
    ELSE Crc8Shift(IF HighBitSet(crc) THEN BitXor(crc * 2, 49) ELSE crc * 2,
                   n - 1)

\* the outer "for byte in data" loop from position i on
RECURSIVE Crc8Bytes(_, _, _)
Crc8Bytes(crc, data, i) ==
    IF i > Len(data) THEN crc
    ELSE Crc8Bytes(Crc8Shift(BitXor(crc, data[i]), 8), data, i + 1)

_crc8_Unmasked(data) == Crc8Bytes(255, data, 1)

\* crc = 0xFF ... return crc & 0xFF
_crc8(data) == Crc8Bytes(255, data, 1) % 256

(***************************************************************************)
(* The sensor: the SHT-30 appends to each 16-bit word the CRC-8 with       *)
(* polynomial 0x31 and seed 0xFF, an 8-bit register.                       *)
(***************************************************************************)
RECURSIVE RefShift(_, _)
RefShift(reg, n) ==
    IF n = 0 THEN reg
    ELSE RefShift(IF HighBitSet(reg) THEN BitXor((reg * 2) % 256, 49)
                                      ELSE (reg * 2) % 256,
                  n - 1)

RECURSIVE RefBytes(_, _, _)
RefBytes(reg, data, i) ==
    IF i > Len(data) THEN reg
    ELSE RefBytes(RefShift(BitXor(reg, data[i]), 8), data, i + 1)

RefCrc8(data) == RefBytes(255, data, 1)

(***************************************************************************)
(* sht30.py: SHT30.measure                                                 *)
(***************************************************************************)
ADDRESS == 68
SCALE == 65535

CMD_MEASURE_HIGH == <<36, 0>>
CMD_MEASURE_MED == <<36, 11>>
CMD_MEASURE_LOW == <<36, 22>>
CMD_SOFT_RESET == <<48, 162>>

Repeatabilities == {"high", "medium", "low"}

MeasureCommand_OneDelay(rep) ==
    CASE rep = "high" -> [cmd |-> CMD_MEASURE_HIGH, delay_ms |-> 15]
      [] rep = "medium" -> [cmd |-> CMD_MEASURE_MED, delay_ms |-> 15]
      [] rep = "low" -> [cmd |-> CMD_MEASURE_LOW, delay_ms |-> 15]

\* the if/elif chain that selects the command and the settling delay
MeasureCommand(rep) ==
    CASE rep = "high" -> [cmd |-> CMD_MEASURE_HIGH, delay_ms |-> 15]
      [] rep = "medium" -> [cmd |-> CMD_MEASURE_MED, delay_ms |-> 6]
      [] rep = "low" -> [cmd |-> CMD_MEASURE_LOW, delay_ms |-> 4]

\* temperature = -45 + (175 * temp_raw / 65535), as a numerator over SCALE
TemperatureOf(temp_raw) == (0 - 45) * SCALE + 175 * temp_raw

HumidityOf_Offset(hum_raw) == 125 * hum_raw - 6 * SCALE

\* humidity = 100 * hum_raw / 65535, as a numerator over SCALE
HumidityOf(hum_raw) == 100 * hum_raw

Min(a, b) == IF a < b THEN a ELSE b
Max(a, b) == IF a > b THEN a ELSE b

\* humidity = max(0, min(100, humidity)), on numerators over SCALE
ClampHumidity(h) == Max(0, Min(100 * SCALE, h))

\* data[:2] and data[3:5]
TempBytes(data) == <<data[1], data[2]>>
HumBytes(data) == <<data[4], data[5]>>

WriteOp(cmd) == [op |-> "writeto", addr |-> ADDRESS, bytes |-> cmd, n |-> Len(cmd)]
SleepOp(ms) == [op |-> "sleep_ms", addr |-> 0, bytes |-> <<>>, n |-> ms]
ReadOp(k) == [op |-> "readfrom", addr |-> ADDRESS, bytes |-> <<>>, n |-> k]
ScanOp == [op |-> "scan", addr |-> 0, bytes |-> <<>>, n |-> 0]

Failure(kind) == [status |-> kind]
Reading(t, h) == [status |-> "ok", temperature |-> t, humidity |-> h]
\* a method without a return value returned
Returned == [status |-> "returned"]

\* The two CRC comparisons of measure(), given the two checksums computed:
\* "" when both pass, else the message of the RuntimeError raised (the
\* temperature word is checked first).
CrcVerdict_TempOnly(data, ct, ch) ==
    IF ct # data[3] THEN "CRC check failed for temperature data" ELSE ""

CrcVerdict(data, ct, ch) ==
    IF ct # data[3] THEN "CRC check failed for temperature data"
    ELSE IF ch # data[6] THEN "CRC check failed for humidity data"
    ELSE ""

\* The conversion of a frame whose checksums passed.
Decode(data) ==
    Reading(TemperatureOf(Join16(data[1], data[2])),
            ClampHumidity(HumidityOf(Join16(data[4], data[5]))))

\* The part of measure() after a successful read of `data`.
MeasureFrame(data, log) ==
    LET ct == _crc8(TempBytes(data))
        ch == _crc8(HumBytes(data))
        verdict == CrcVerdict(data, ct, ch)
    IN     IF verdict = "CRC check failed for temperature data"
           THEN [result |-> Failure("RuntimeError"), log |-> log, data |-> data,
                 crc_temp |-> ct, crc_hum |-> -1]
           ELSE IF verdict # ""
           THEN [result |-> Failure("RuntimeError"), log |-> log, data |-> data,
                 crc_temp |-> ct, crc_hum |-> ch]
           ELSE [result |-> Decode(data), log |-> log, data |-> data,
                 crc_temp |-> ct, crc_hum |-> ch]
measure_Swallowing(rep, fault, frame) ==
    IF rep \notin Repeatabilities
    THEN [result |-> Failure("ValueError"), log |-> <<>>, data |-> <<>>,
          crc_temp |-> -1, crc_hum |-> -1]
    ELSE LET c == MeasureCommand(rep)
             w == <<WriteOp(c.cmd)>>
             wr == w \o <<SleepOp(c.delay_ms), ReadOp(6)>>
         IN  IF fault = "write"
             THEN [result |-> Failure("RuntimeError"), log |-> w, data |-> <<>>,
                   crc_temp |-> -1, crc_hum |-> -1]
             ELSE IF fault = "read"
             THEN [result |-> Reading(-1, -1), log |-> wr, data |-> <<>>,
                   crc_temp |-> -1, crc_hum |-> -1]
             ELSE MeasureFrame(frame, wr)

\* measure(repeatability) against a bus on which `fault` raises and the
\* device answers `frame`: what the caller gets, the bus operations made and
\* the checksums computed on the way.  Every exception inside the try block
\* is re-raised as RuntimeError.
measure(rep, fault, frame) ==
    IF rep \notin Repeatabilities
    THEN [result |-> Failure("ValueError"), log |-> <<>>, data |-> <<>>,
          crc_temp |-> -1, crc_hum |-> -1]
    ELSE LET c == MeasureCommand(rep)
             w == <<WriteOp(c.cmd)>>
             wr == w \o <<SleepOp(c.delay_ms), ReadOp(6)>>
         IN  IF fault = "write"
             THEN [result |-> Failure("RuntimeError"), log |-> w, data |-> <<>>,
                   crc_temp |-> -1, crc_hum |-> -1]
             ELSE IF fault = "read"
             THEN [result |-> Failure("RuntimeError"), log |-> wr, data |-> <<>>,
                   crc_temp |-> -1, crc_hum |-> -1]
             ELSE MeasureFrame(frame, wr)

\* read_temperature_humidity(): return self.measure('high')
read_temperature_humidity(fault, frame) == measure("high", fault, frame)

(***************************************************************************)
(* sht30.py: SHT30.__init__, _check_sensor and soft_reset                  *)
(***************************************************************************)
_check_sensor_AnyDevice(devs) ==
    IF devs = {}
    THEN [result |-> Failure("RuntimeError"), log |-> <<ScanOp>>]
    ELSE [result |-> Returned, log |-> <<ScanOp>>]

\* devices = self.i2c.scan(); if self.address not in devices: raise
_check_sensor(devs) ==
    IF ADDRESS \notin devs
    THEN [result |-> Failure("RuntimeError"), log |-> <<ScanOp>>]
    ELSE [result |-> Returned, log |-> <<ScanOp>>]

\* SHT30(i2c): stores its arguments and calls _check_sensor()
__init__(devs) == _check_sensor(devs)

soft_reset_NoWait(fault) ==
    IF fault = "write"
    THEN [result |-> Failure("RuntimeError"), log |-> <<WriteOp(CMD_SOFT_RESET)>>]
    ELSE [result |-> Returned, log |-> <<WriteOp(CMD_SOFT_RESET)>>]

\* writeto(address, CMD_SOFT_RESET); sleep_ms(100); an exception of the
\* write is re-raised as RuntimeError
soft_reset(fault) ==
    IF fault = "write"
    THEN [result |-> Failure("RuntimeError"), log |-> <<WriteOp(CMD_SOFT_RESET)>>]
    ELSE [result |-> Returned,
          log |-> <<WriteOp(CMD_SOFT_RESET), SleepOp(100)>>]

(***************************************************************************)
(* main.py: the SHT30 class defined there, and its read_data().  It sends  *)
(* 0x2C 0x06, waits 500 ms, reads 6 bytes, checks no CRC, converts the     *)
(* temperature to Fahrenheit, and turns every exception into the return    *)
(* value (None, None).  Its temperature is a numerator over 5 * SCALE.     *)
(***************************************************************************)
None == -1

CMD_READ_DATA == <<44, 6>>

\* (temperature_celsius * 9.0 / 5.0) + 32.0, over 5 * SCALE
Fahrenheit(celsius) == 9 * celsius + 160 * SCALE

read_data(fault, frame) ==
    LET w == <<WriteOp(CMD_READ_DATA)>>
        wr == w \o <<SleepOp(500), ReadOp(6)>>
    IN  IF fault = "write"
        THEN [result |-> Reading(None, None), log |-> w, data |-> <<>>]
        ELSE IF fault = "read"
        THEN [result |-> Reading(None, None), log |-> wr, data |-> <<>>]
        ELSE [result |-> Reading(Fahrenheit(TemperatureOf(Join16(frame[1], frame[2]))),
                                 HumidityOf(Join16(frame[4], frame[5]))),
              log |-> wr, data |-> frame]

(***************************************************************************)
(* Frames on the bus.  A frame carries two words, each followed by the     *)
(* sensor's CRC, possibly damaged in transit: the check byte is XORed with *)
(* a corruption mask (0 leaves it intact).                                  *)
(***************************************************************************)
Hi(w) == w \div 256
Lo(w) == w % 256

MkFrame(tw, tx, hw, hx) ==
    <<Hi(tw), Lo(tw), BitXor(RefCrc8(<<Hi(tw), Lo(tw)>>), tx),
      Hi(hw), Lo(hw), BitXor(RefCrc8(<<Hi(hw), Lo(hw)>>), hx)>>

Corruptions == {0, 1, 128, 255}
SampleWords == {0, 1, 48879, 65535}
BusFaults == {"none", "write", "read"}
\* 0x45 is the sensor's alternative address
ScanResults == {{}, {69}, {ADDRESS}, {ADDRESS, 69}}
BootScans == {{}, {69}, {ADDRESS}}

(***************************************************************************)
(* config_template.py: the values a config.py sets.  The model draws the   *)
(* intervals and the ceiling from small sets; the template's own values    *)
(* are 5 s, 30 s, 5 errors, 10 %, 80 % and 10 s.                            *)
(***************************************************************************)
PIR_ENABLED == TRUE
\* config_template.py line 26; main.py never reads it
PIR_DEBOUNCE_TIME == 2
LIGHT_ENABLED == TRUE

ReadingIntervals == {2}
MotionTimeouts == {2, 3}
ErrorCeilings == {2, 3}
LightThresholds == {<<10, 80>>}
LightIntervals == {2, 3}

Configured ==
    /\ READING_INTERVAL \in ReadingIntervals
    /\ PIR_TIMEOUT \in MotionTimeouts
    /\ MAX_CONSECUTIVE_ERRORS \in ErrorCeilings
    /\ \E th \in LightThresholds :
          /\ LIGHT_THRESHOLD_LOW = th[1]
          /\ LIGHT_THRESHOLD_HIGH = th[2]
    /\ LIGHT_READING_INTERVAL \in LightIntervals

\* main.py lines 48-56 and 350-351: the state main() starts its loop with
ModuleState ==
    /\ motion_detected = FALSE
    /\ last_motion_time = 0
    /\ motion_state_sent = FALSE
    /\ light_level_percent = 0
    /\ last_light_reading = 0
    /\ last_light_state = "unknown"
    /\ current_light_state = "unknown"
    /\ error_count = 0
    /\ last_sensor_reading = 0

NoObservation ==
    /\ io = <<>>
    /\ prev_error_count = 0
    /\ failed_cycles = 0
    /\ reset_calls = 0
    /\ motion_events = 0
    /\ last_measure_time = -1
    /\ prev_light_state = "unknown"
    /\ light_flips = 0
    /\ samples = <<>>
    /\ motion_seen = FALSE
    /\ first_motion_event = "none"
    /\ quiet = FALSE
    /\ light_failures = 0

\* config_template.py as it stands
TemplateConfig ==
    /\ READING_INTERVAL = 5
    /\ PIR_TIMEOUT = 30
    /\ MAX_CONSECUTIVE_ERRORS = 5
    /\ LIGHT_THRESHOLD_LOW = 10
    /\ LIGHT_THRESHOLD_HIGH = 80
    /\ LIGHT_READING_INTERVAL = 10

\* main() is not running: the driver is exercised on its own
LoopOff ==
    /\ TemplateConfig
    /\ ModuleState
    /\ NoObservation
    /\ history = FALSE
    /\ pc = "off"
    /\ now = 0
    /\ faults = {}
    /\ horizon = 0

(***************************************************************************)
(* What a loop iteration does, as a sequence of events                     *)
(***************************************************************************)
Ev(kind, what, tag, val, ok) ==
    [ev |-> kind, what |-> what, tag |-> tag, val |-> val, ok |-> ok]

BoolInt(b) == IF b THEN 1 ELSE 0

(***************************************************************************)
(* main.py: check_motion_sensor                                            *)
(***************************************************************************)
MotionRec(md, lmt, mss, ret) ==
    [motion_detected |-> md, last_motion_time |-> lmt,
     motion_state_sent |-> mss, ret |-> ret]

MotionTimedOut_Strict(current_time, lmt) == current_time - lmt > PIR_TIMEOUT

MotionTimedOut_Early(current_time, lmt) == current_time - lmt >= PIR_TIMEOUT - 1
MotionTimedOut_Swapped(current_time, lmt) == lmt - current_time >= PIR_TIMEOUT

\* "current_time - last_motion_time >= PIR_TIMEOUT"
MotionTimedOut(current_time, lmt) == current_time - lmt >= PIR_TIMEOUT

check_motion_sensor_NoRefresh(md, lmt, mss, current_time, pir_reading) ==
    IF pir_reading = 1
    THEN IF ~md THEN MotionRec(TRUE, current_time, FALSE, TRUE)
                ELSE MotionRec(md, lmt, mss, TRUE)
    ELSE IF md /\ MotionTimedOut(current_time, lmt)
    THEN MotionRec(FALSE, lmt, FALSE, FALSE)
    ELSE MotionRec(md, lmt, mss, md)
check_motion_sensor_Debounced(md, lmt, mss, current_time, pir_reading) ==
    IF pir_reading = 1
    THEN IF ~md
         THEN IF lmt # 0 /\ current_time - lmt < PIR_TIMEOUT + PIR_DEBOUNCE_TIME
              THEN MotionRec(md, lmt, mss, FALSE)
              ELSE MotionRec(TRUE, current_time, FALSE, TRUE)
         ELSE MotionRec(md, current_time, mss, TRUE)
    ELSE IF md /\ MotionTimedOut(current_time, lmt)
    THEN MotionRec(FALSE, lmt, FALSE, FALSE)
    ELSE MotionRec(md, lmt, mss, md)
check_motion_sensor_IdleUnsent(md, lmt, mss, current_time, pir_reading) ==
    IF pir_reading = 1
    THEN IF ~md THEN MotionRec(TRUE, current_time, FALSE, TRUE)
                ELSE MotionRec(md, current_time, mss, TRUE)
    ELSE IF md /\ MotionTimedOut(current_time, lmt)
    THEN MotionRec(FALSE, lmt, FALSE, FALSE)
    ELSE MotionRec(md, lmt, TRUE, md)

check_motion_sensor(md, lmt, mss, current_time, pir_reading) ==
    IF ~PIR_ENABLED THEN MotionRec(md, lmt, mss, FALSE)
    ELSE IF pir_reading = 1
    THEN IF ~md THEN MotionRec(TRUE, current_time, FALSE, TRUE)
                ELSE MotionRec(md, current_time, mss, TRUE)
    ELSE IF md /\ MotionTimedOut(current_time, lmt)
    THEN MotionRec(FALSE, lmt, FALSE, FALSE)
    ELSE MotionRec(md, lmt, mss, md)

(***************************************************************************)
(* main.py: the publish functions.  Each catches the exception of          *)
(* client.publish and returns False; broker_ok tells whether the call      *)
(* to client.publish goes through.                                         *)
(***************************************************************************)
publish_motion_event(broker_ok, motion) ==
    [ret |-> broker_ok,
     events |-> <<Ev("publish", "motion",
                     IF motion THEN "detected" ELSE "cleared",
                     BoolInt(motion), broker_ok)>>]

publish_light_data(broker_ok, light_level, light_state) ==
    [ret |-> broker_ok,
     events |-> <<Ev("publish", "light", light_state, light_level, broker_ok)>>]
publish_sensor_data_Retry(temp_ok, hum_ok, temperature, humidity) ==
    IF ~temp_ok
    THEN [ret |-> FALSE,
          events |-> <<Ev("publish", "temp", "", temperature, FALSE),
                       Ev("publish", "temp", "", temperature, FALSE)>>]
    ELSE [ret |-> hum_ok,
          events |-> <<Ev("publish", "temp", "", temperature, TRUE),
                       Ev("publish", "hum", "", humidity, hum_ok)>>]
publish_sensor_data_TempDecides(temp_ok, hum_ok, temperature, humidity) ==
    IF ~temp_ok
    THEN [ret |-> FALSE,
          events |-> <<Ev("publish", "temp", "", temperature, FALSE)>>]
    ELSE [ret |-> TRUE,
          events |-> <<Ev("publish", "temp", "", temperature, TRUE),
                       Ev("publish", "hum", "", humidity, hum_ok)>>]

\* the temperature is published first; a failure there skips the humidity
publish_sensor_data(temp_ok, hum_ok, temperature, humidity) ==
    IF ~temp_ok
    THEN [ret |-> FALSE,
          events |-> <<Ev("publish", "temp", "", temperature, FALSE)>>]
    ELSE [ret |-> hum_ok,
          events |-> <<Ev("publish", "temp", "", temperature, TRUE),
                       Ev("publish", "hum", "", humidity, hum_ok)>>]

(***************************************************************************)
(* main.py: read_light_sensor and determine_light_state.  A light level    *)
(* is a percentage kept as a numerator over SCALE.                         *)
(***************************************************************************)
ADC_ERROR == -1

\* light_percentage = (adc_value / 65535.0) * 100.0
read_light_sensor(adc_value) ==
    IF ~LIGHT_ENABLED THEN None
    ELSE IF adc_value = ADC_ERROR THEN None
    ELSE adc_value * 100

determine_light_state_Inclusive(light_percent) ==
    IF light_percent <= LIGHT_THRESHOLD_LOW * SCALE THEN "dark"
    ELSE IF light_percent >= LIGHT_THRESHOLD_HIGH * SCALE THEN "bright"
    ELSE "normal"

\* the thresholds are whole percentages: LOW * SCALE is LOW % as a numerator
determine_light_state(light_percent) ==
    IF light_percent < LIGHT_THRESHOLD_LOW * SCALE THEN "dark"
    ELSE IF light_percent > LIGHT_THRESHOLD_HIGH * SCALE THEN "bright"
    ELSE "normal"

(***************************************************************************)
(* main.py: main(), one iteration of the while loop                        *)
(***************************************************************************)
\* lines 363-364: "if publish_motion_event(...): motion_state_sent = motion_state"
PublishedFlag_NeverSet(published, motion_state, flag) == flag

PublishedFlag(published, motion_state, flag) ==
    IF published THEN motion_state ELSE flag
MotionStep_RollsBack(pir_reading, broker_ok) ==
    LET m == check_motion_sensor(motion_detected, last_motion_time,
                                 motion_state_sent, now, pir_reading)
        p == publish_motion_event(broker_ok, m.ret)
        sample == <<Ev("sample", "pir", "", pir_reading, TRUE)>>
    IN  IF m.ret # m.motion_state_sent
        THEN [motion_detected |-> IF p.ret THEN m.motion_detected
                                           ELSE motion_detected,
              last_motion_time |-> IF p.ret THEN m.last_motion_time
                                            ELSE last_motion_time,
              motion_state_sent |-> PublishedFlag(p.ret, m.ret,
                                                  m.motion_state_sent),
              events |-> sample \o p.events,
              emitted |-> IF p.ret THEN p.events[1].tag ELSE "none",
              pir |-> pir_reading]
        ELSE [motion_detected |-> m.motion_detected,
              last_motion_time |-> m.last_motion_time,
              motion_state_sent |-> m.motion_state_sent,
              events |-> sample, emitted |-> "none", pir |-> pir_reading]

\* lines 357-366: sample the motion line, publish a change of state
MotionStep(pir_reading, broker_ok) ==
    IF ~PIR_ENABLED
    THEN [motion_detected |-> motion_detected,
          last_motion_time |-> last_motion_time,
          motion_state_sent |-> motion_state_sent,
          events |-> <<>>, emitted |-> "none", pir |-> pir_reading]
    ELSE LET m == check_motion_sensor(motion_detected, last_motion_time,
                                      motion_state_sent, now, pir_reading)
             p == publish_motion_event(broker_ok, m.ret)
             sample == <<Ev("sample", "pir", "", pir_reading, TRUE)>>
         IN  IF m.ret # m.motion_state_sent
             THEN [motion_detected |-> m.motion_detected,
                   last_motion_time |-> m.last_motion_time,
                   motion_state_sent |-> PublishedFlag(p.ret, m.ret,
                                                       m.motion_state_sent),
                   events |-> sample \o p.events,
                   emitted |-> IF p.ret THEN p.events[1].tag ELSE "none",
                   pir |-> pir_reading]
             ELSE [motion_detected |-> m.motion_detected,
                   last_motion_time |-> m.last_motion_time,
                   motion_state_sent |-> m.motion_state_sent,
                   events |-> sample, emitted |-> "none", pir |-> pir_reading]

\* lines 369 and 412/431: the two comparisons of main()
CycleDue(current_time) == current_time - last_sensor_reading >= READING_INTERVAL

TooManyErrors_Strict(ec) == ec > MAX_CONSECUTIVE_ERRORS

TooManyErrors_Doubled(ec) == ec >= 2 * MAX_CONSECUTIVE_ERRORS

TooManyErrors(ec) == ec >= MAX_CONSECUTIVE_ERRORS

LightStep_ChangeOnly(adc_value, broker_ok) ==
    LET level == read_light_sensor(adc_value)
        state == determine_light_state(level)
        p == publish_light_data(broker_ok, level, state)
        sample == <<Ev("sample", "light", "", adc_value, level # None)>>
        keep == [light_level_percent |-> light_level_percent,
                 last_light_state |-> last_light_state,
                 last_light_reading |-> last_light_reading,
                 current_light_state |-> "unknown"]
        sampled == [light_level_percent |-> level,
                    last_light_state |-> last_light_state,
                    last_light_reading |-> last_light_reading,
                    current_light_state |-> state]
    IN  IF ~LIGHT_ENABLED THEN keep @@ [events |-> <<>>]
        ELSE IF level = None THEN keep @@ [events |-> sample]
        ELSE IF state # last_light_state
        THEN IF p.ret
             THEN [light_level_percent |-> level, last_light_state |-> state,
                   last_light_reading |-> now, current_light_state |-> state,
                   events |-> sample \o p.events]
             ELSE sampled @@ [events |-> sample \o p.events]
        ELSE sampled @@ [events |-> sample]
LightStep_StampsFailure(adc_value, broker_ok) ==
    LET level == read_light_sensor(adc_value)
        state == determine_light_state(level)
        p == publish_light_data(broker_ok, level, state)
        sample == <<Ev("sample", "light", "", adc_value, level # None)>>
        keep == [light_level_percent |-> light_level_percent,
                 last_light_state |-> last_light_state,
                 last_light_reading |-> last_light_reading,
                 current_light_state |-> "unknown"]
        sampled == [light_level_percent |-> level,
                    last_light_state |-> last_light_state,
                    last_light_reading |-> last_light_reading,
                    current_light_state |-> state]
    IN  IF level = None THEN keep @@ [events |-> sample]
        ELSE IF state # last_light_state
                \/ now - last_light_reading >= LIGHT_READING_INTERVAL
        THEN [light_level_percent |-> level, last_light_state |-> state,
              last_light_reading |-> now, current_light_state |-> state,
              events |-> sample \o p.events]
        ELSE sampled @@ [events |-> sample]

\* lines 372-390: sample the light level, publish it on change or heartbeat
LightStep(adc_value, broker_ok) ==
    LET level == read_light_sensor(adc_value)
        state == determine_light_state(level)
        p == publish_light_data(broker_ok, level, state)
        sample == <<Ev("sample", "light", "", adc_value, level # None)>>
        keep == [light_level_percent |-> light_level_percent,
                 last_light_state |-> last_light_state,
                 last_light_reading |-> last_light_reading,
                 current_light_state |-> "unknown"]
        sampled == [light_level_percent |-> level,
                    last_light_state |-> last_light_state,
                    last_light_reading |-> last_light_reading,
                    current_light_state |-> state]
    IN  IF ~LIGHT_ENABLED THEN keep @@ [events |-> <<>>]
        ELSE IF level = None THEN keep @@ [events |-> sample]
        ELSE IF state # last_light_state
                \/ now - last_light_reading >= LIGHT_READING_INTERVAL
        THEN IF p.ret
             THEN [light_level_percent |-> level, last_light_state |-> state,
                   last_light_reading |-> now, current_light_state |-> state,
                   events |-> sample \o p.events]
             ELSE sampled @@ [events |-> sample \o p.events]
        ELSE sampled @@ [events |-> sample]

\* lines 401-407: publish the reading and count the outcome
CountPublish_NoReset(ec, published) == IF published THEN ec ELSE ec + 1
CountPublish_Twice(ec, published) == IF published THEN 0 ELSE ec + 2

CountPublish(ec, published) == IF published THEN 0 ELSE ec + 1

CountException_Uncounted(ec) == ec

\* lines 425-427: an exception of the try block is counted
CountException(ec) == ec + 1
\* the bus operations of a measure() call as events of the iteration; a call
\* that read no frame was cut short by the exception of its last operation
BusEvents(m) ==
    [i \in 1..Len(m.log) |->
        Ev("bus", m.log[i].op, "", m.log[i].n,
           ~(m.data = <<>> /\ i = Len(m.log)))]

\* lines 369-409, the try block's sensor cycle.  `m` is what
\* read_temperature_humidity did; a failed measurement raises out of the
\* block before anything else of the cycle runs.
SensorCycle(m, adc_value, light_ok, temp_ok, hum_ok) ==
    LET measured == BusEvents(m)
                    \o <<Ev("measure", "sht30", m.result.status, 0,
                            m.result.status = "ok")>>
        keep == [light_level_percent |-> light_level_percent,
                 last_light_state |-> last_light_state,
                 last_light_reading |-> last_light_reading,
                 current_light_state |-> current_light_state]
    IN  IF m.result.status # "ok"
        THEN keep @@ [raised |-> TRUE, ran |-> TRUE, failed |-> TRUE,
                      error_count |-> error_count,
                      last_sensor_reading |-> last_sensor_reading,
                      events |-> measured]
        ELSE LET l == LightStep(adc_value, light_ok)
                 p == publish_sensor_data(temp_ok, hum_ok, m.result.temperature,
                                          m.result.humidity)
             IN  [light_level_percent |-> l.light_level_percent,
                  last_light_state |-> l.last_light_state,
                  last_light_reading |-> l.last_light_reading,
                  current_light_state |-> l.current_light_state,
                  raised |-> FALSE, ran |-> TRUE, failed |-> ~p.ret,
                  error_count |-> CountPublish(error_count, p.ret),
                  last_sensor_reading |-> now,
                  events |-> measured \o l.events \o p.events]
\* the light publish attempts among the events of a cycle
LightPublishes(events) ==
    {i \in 1..Len(events) :
        events[i].ev = "publish" /\ events[i].what = "light"}

\* whether the events of a cycle hold a valid light sample, and a successful
\* light publish of a classification other than `published`
LightSampled(events) ==
    \E i \in 1..Len(events) :
        events[i].ev = "sample" /\ events[i].what = "light" /\ events[i].ok

LightChangePublished(events, published) ==
    \E i \in 1..Len(events) :
        /\ events[i].ev = "publish" /\ events[i].what = "light" /\ events[i].ok
        /\ published # "unknown"
        /\ events[i].tag # published

\* an iteration in which the reading interval has not elapsed
NoCycle ==
    [light_level_percent |-> light_level_percent,
     last_light_state |-> last_light_state,
     last_light_reading |-> last_light_reading,
     current_light_state |-> current_light_state,
     raised |-> FALSE, ran |-> FALSE, failed |-> FALSE,
     error_count |-> error_count,
     last_sensor_reading |-> last_sensor_reading, events |-> <<>>]

(***************************************************************************)
(* The environment of the loop                                             *)
(***************************************************************************)
MaxTime == 9
MaxSamples == 4

AllFaults == {"bus", "crc", "adc", "mqtt"}
BootTimes == {3}
Steps == {0, 1}
\* one count below and one count above 10 % of full scale
ADCSamples == {6553, 6554}

\* whether a call of client.publish can fail in this run
Broker == IF "mqtt" \in faults THEN BOOLEAN ELSE {TRUE}

LightInputs == ADCSamples \cup (IF "adc" \in faults THEN {ADC_ERROR} ELSE {})

\* what read_temperature_humidity() can do in an iteration of the loop
GoodFrame == MkFrame(25000, 0, 30000, 0)
BadTempFrame == MkFrame(25000, 1, 30000, 0)
BadHumFrame == MkFrame(25000, 0, 30000, 128)

LoopMeasurements ==
    {[cause |-> "none", m |-> read_temperature_humidity("none", GoodFrame)],
     [cause |-> "bus", m |-> read_temperature_humidity("write", GoodFrame)],
     [cause |-> "bus", m |-> read_temperature_humidity("read", GoodFrame)],
     [cause |-> "crc", m |-> read_temperature_humidity("none", BadTempFrame)],
     [cause |-> "crc", m |-> read_temperature_humidity("none", BadHumFrame)]}

Measurements == {x.m : x \in {y \in LoopMeasurements : y.cause \in faults \cup {"none"}}}

\* what the motion line can read at the next sample
PirReadings == IF quiet THEN {0} ELSE {0, 1}

MotionOutcomes == {MotionStep(pir, ok) : pir \in PirReadings, ok \in Broker}

CycleOutcomes ==
    IF CycleDue(now)
    THEN {SensorCycle(m, adc, lo, to, ho) :
             m \in Measurements, adc \in LightInputs,
             lo \in Broker, to \in Broker, ho \in Broker}
    ELSE {NoCycle}

Pause_AlwaysShort(raised) == Steps

\* whole seconds the clock advances until the next iteration reads it: the
\* try block ends in time.sleep(0.1); the handler blinks five times (1 s)
\* and then sleeps READING_INTERVAL
Pause(raised) ==
    IF raised THEN {READING_INTERVAL + 1 + j : j \in Steps}
    ELSE Steps

DriverIdle ==
    /\ repeatability = "high"
    /\ bus_fault = "none"
    /\ raw_temp = 0
    /\ raw_hum = 0
    /\ noise_temp = 0
    /\ noise_hum = 0
    /\ bus_frame = <<>>
    /\ dpc = "idle"
    /\ crc_temp = -1
    /\ crc_hum = -1
    /\ result = Failure("none")
    /\ bus_log = <<>>

Init ==
    /\ Configured
    /\ ModuleState
    /\ NoObservation
    /\ history = FALSE
    /\ DriverIdle
    /\ devices \in BootScans
    /\ pc = "start"
    /\ now \in BootTimes
    /\ faults = AllFaults
    /\ horizon = 0

startup_IgnoresSensor(i2c_ok, devs, wifi_ok, mqtt_ok) ==
    LET c == __init__(devs)
        bus == <<Ev("init", "i2c", "", 0, i2c_ok)>>
        built == <<Ev("construct", "sht30", c.result.status, Len(c.log),
                      c.result = Returned)>>
        wifi == <<Ev("connect", "wifi", "", 0, wifi_ok)>>
        mqtt == <<Ev("connect", "mqtt", "", 0, mqtt_ok)>>
    IN  IF ~i2c_ok THEN [pc |-> "stopped", events |-> bus]
        ELSE IF ~wifi_ok
        THEN [pc |-> "stopped", events |-> bus \o built \o wifi]
        ELSE IF ~mqtt_ok
        THEN [pc |-> "stopped", events |-> bus \o built \o wifi \o mqtt]
        ELSE [pc |-> "loop", events |-> bus \o built \o wifi \o mqtt]

\* main.py lines 310-340: the bus, the driver, WiFi and the broker are set
\* up in this order; the first that fails makes main() return
startup(i2c_ok, devs, wifi_ok, mqtt_ok) ==
    LET c == __init__(devs)
        bus == <<Ev("init", "i2c", "", 0, i2c_ok)>>
        built == <<Ev("construct", "sht30", c.result.status, Len(c.log),
                      c.result = Returned)>>
        wifi == <<Ev("connect", "wifi", "", 0, wifi_ok)>>
        mqtt == <<Ev("connect", "mqtt", "", 0, mqtt_ok)>>
    IN  IF ~i2c_ok THEN [pc |-> "stopped", events |-> bus]
        ELSE IF c.result # Returned
        THEN [pc |-> "stopped", events |-> bus \o built]
        ELSE IF ~wifi_ok
        THEN [pc |-> "stopped", events |-> bus \o built \o wifi]
        ELSE IF ~mqtt_ok
        THEN [pc |-> "stopped", events |-> bus \o built \o wifi \o mqtt]
        ELSE [pc |-> "loop", events |-> bus \o built \o wifi \o mqtt]

Startup ==
    /\ pc = "start"
    /\ \E i2c_ok \in BOOLEAN, wifi_ok \in BOOLEAN, mqtt_ok \in BOOLEAN :
          \E st \in {startup(i2c_ok, devices, wifi_ok, mqtt_ok)} :
             /\ pc' = st.pc
             /\ io' = st.events
    /\ UNCHANGED <<driverVars, configVars, now, motionVars, lightVars,
                   error_count, last_sensor_reading, faults, prev_error_count,
                   failed_cycles, reset_calls, motion_events, last_measure_time,
                   prev_light_state, light_flips, horizon, samples,
                   motion_seen, first_motion_event, quiet, light_failures,
                   history>>

\* main.py lines 353-435: one pass through the while loop
LoopIteration ==
    /\ pc = "loop"
    /\ \E mo \in MotionOutcomes, cy \in CycleOutcomes :
          LET ec == IF cy.raised THEN CountException(cy.error_count)
                                 ELSE cy.error_count
              reset == TooManyErrors(ec)
              emitted == BoolInt(mo.emitted # "none")
              last == IF reset
                      THEN <<Ev("reset", "machine",
                                IF cy.raised THEN "handler" ELSE "try", ec, TRUE)>>
                      ELSE <<Ev("sleep", "time",
                                IF cy.raised THEN "READING_INTERVAL" ELSE "0.1",
                                0, TRUE)>>
          IN  /\ \E dt \in (IF reset THEN {0} ELSE Pause(cy.raised)) :
                    /\ now + dt <= MaxTime
                    /\ now' = now + dt
              /\ pc' = IF reset THEN "reset" ELSE "loop"
              /\ motion_detected' = mo.motion_detected
              /\ last_motion_time' = mo.last_motion_time
              /\ motion_state_sent' = mo.motion_state_sent
              /\ light_level_percent' = cy.light_level_percent
              /\ last_light_state' = cy.last_light_state
              /\ last_light_reading' = cy.last_light_reading
              /\ current_light_state' = cy.current_light_state
              /\ error_count' = ec
              /\ last_sensor_reading' = cy.last_sensor_reading
              /\ io' = mo.events \o cy.events \o last
              /\ prev_error_count' = error_count
              /\ failed_cycles' = IF ~cy.ran THEN failed_cycles
                                  ELSE IF cy.failed THEN failed_cycles + 1
                                  ELSE 0
              /\ reset_calls' = reset_calls + BoolInt(reset)
              /\ motion_events' = IF mo.motion_detected # motion_detected
                                  THEN emitted
                                  ELSE Min(motion_events + emitted, 2)
              /\ last_measure_time' = IF cy.ran THEN now ELSE last_measure_time
              /\ prev_light_state' = last_light_state
              /\ light_flips' =
                    IF ~LightSampled(cy.events) THEN light_flips
                    ELSE IF LightChangePublished(cy.events, last_light_state)
                    THEN Min(light_flips + 1, 2)
                    ELSE 0
              /\ samples' = IF Len(samples) < horizon
                            THEN Append(samples,
                                        [s |-> mo.pir, t |-> now,
                                         active |-> mo.motion_detected,
                                         event |-> mo.emitted])
                            ELSE samples
              /\ motion_seen' = (motion_seen \/ mo.pir = 1)
              /\ light_failures' =
                    IF ~history \/ LightPublishes(cy.events) = {}
                    THEN light_failures
                    ELSE IF \E i \in LightPublishes(cy.events) : cy.events[i].ok
                    THEN 0
                    ELSE Min(light_failures + 1, 2)
              /\ first_motion_event' = IF history /\ first_motion_event = "none"
                                       THEN mo.emitted
                                       ELSE first_motion_event
    /\ UNCHANGED <<driverVars, configVars, faults, horizon, quiet, history>>

Next == Startup \/ LoopIteration

Spec == Init /\ [][Next]_vars

\* The same program with the history of its run recorded: the first motion
\* event it emitted and its consecutive failed light publishes.
InitHistory ==
    /\ Configured
    /\ ModuleState
    /\ NoObservation
    /\ history = TRUE
    /\ DriverIdle
    /\ devices \in BootScans
    /\ pc = "start"
    /\ now \in BootTimes
    /\ faults = AllFaults
    /\ horizon = 0

SpecHistory == InitHistory /\ [][Next]_vars

\* The same loop with its first MaxSamples motion samples recorded, in a
\* run that is followed for that many iterations.
InitTrace ==
    /\ Configured
    /\ ModuleState
    /\ NoObservation
    /\ history = FALSE
    /\ DriverIdle
    /\ devices = {ADDRESS}
    /\ pc = "loop"
    /\ now \in BootTimes
    /\ faults = {}
    /\ horizon = MaxSamples

NextTrace == Len(samples) < horizon /\ LoopIteration

SpecTrace == InitTrace /\ [][NextTrace]_vars

(***************************************************************************)
(* The loop under fair scheduling.  The while loop of main() is the only   *)
(* thread, so an iteration that can run does run; and every iteration ends *)
(* in a time.sleep of at least 0.1 s, so iterations that read the same     *)
(* whole second cannot go on for ever: the clock advances.  The motion     *)
(* line may fall quiet at any time that leaves the bounded clock room for  *)
(* the timeout; bus faults make measurements fail, with their long pauses  *)
(* and the restart at the error ceiling.                                   *)
(***************************************************************************)
InitLive ==
    /\ Configured
    /\ ModuleState
    /\ NoObservation
    /\ history = FALSE
    /\ DriverIdle
    /\ devices = {ADDRESS}
    /\ pc = "loop"
    /\ now \in BootTimes
    /\ faults = {"bus"}
    /\ horizon = 0

\* from now on pir_sensor.value() returns 0
Quiet ==
    /\ pc = "loop"
    /\ ~quiet
    /\ now + PIR_TIMEOUT <= MaxTime
    /\ quiet' = TRUE
    /\ UNCHANGED <<driverVars, configVars, loopVars, faults, io,
                   prev_error_count, failed_cycles, reset_calls, motion_events,
                   last_measure_time, prev_light_state, light_flips, horizon,
                   samples, motion_seen, first_motion_event, light_failures,
                   history>>

\* an iteration that reads a later second than the one before it
Tick == LoopIteration /\ now' > now

NextLive == LoopIteration \/ Quiet

SpecLive ==
    /\ InitLive
    /\ [][NextLive]_vars
    /\ WF_vars(LoopIteration)
    /\ WF_vars(Tick)

(***************************************************************************)
(* determine_light_state on its own: one call with the thresholds, the     *)
(* light level and the previously published classification drawn freely   *)
(***************************************************************************)
ThresholdPairs == {<<10, 80>>, <<20, 60>>, <<0, 100>>, <<50, 51>>}
WholePercents == {0 - 5, 0, 5, 10, 15, 20, 40, 50, 51, 60, 70, 80, 95, 100, 105}
LightCounts == {0, 6553, 6554, 13107, 32768, 52428, 52429, 65535}
LightLevels == {q * SCALE : q \in WholePercents} \cup {c * 100 : c \in LightCounts}
LightStates == {"unknown", "dark", "normal", "bright"}

InitLight ==
    /\ READING_INTERVAL = 5
    /\ PIR_TIMEOUT = 30
    /\ MAX_CONSECUTIVE_ERRORS = 5
    /\ LIGHT_READING_INTERVAL = 10
    /\ \E th \in ThresholdPairs :
          /\ LIGHT_THRESHOLD_LOW = th[1]
          /\ LIGHT_THRESHOLD_HIGH = th[2]
    /\ motion_detected = FALSE
    /\ last_motion_time = 0
    /\ motion_state_sent = FALSE
    /\ light_level_percent \in LightLevels
    /\ last_light_reading = 0
    /\ last_light_state \in LightStates
    /\ current_light_state = "unknown"
    /\ error_count = 0
    /\ last_sensor_reading = 0
    /\ NoObservation
    /\ history = FALSE
    /\ DriverIdle
    /\ devices = {ADDRESS}
    /\ pc = "classify"
    /\ now = 0
    /\ faults = {}
    /\ horizon = 0

\* line 378: current_light_state = determine_light_state(light_level)
Classify ==
    /\ pc = "classify"
    /\ current_light_state' = determine_light_state(light_level_percent)
    /\ pc' = "classified"
    /\ UNCHANGED <<driverVars, configVars, obsVars, now, motionVars,
                   light_level_percent, last_light_reading, last_light_state,
                   error_count, last_sensor_reading>>

NextLight == Classify

SpecLight == InitLight /\ [][NextLight]_vars

(***************************************************************************)
(* The driver on its own                                                   *)
(***************************************************************************)
\* Inputs of one driver call.  Sweep: every 16-bit temperature count and
\* every 16-bit humidity count on a clean wire.  Samples: sample words with
\* every combination of damage, repeatability and bus fault.
DriverInput(rep, fault, tw, tx, hw, hx) ==
    /\ repeatability = rep
    /\ bus_fault = fault
    /\ raw_temp = tw
    /\ noise_temp = tx
    /\ raw_hum = hw
    /\ noise_hum = hx

InitDriver ==
    /\ \/ /\ \E w \in Word : DriverInput("high", "none", w, 0, 65535 - w, 0)
          /\ dpc = "call"
          /\ devices = {ADDRESS}
       \/ /\ \E r \in Repeatabilities \cup {"ultra"}, f \in BusFaults,
                tw \in SampleWords, tx \in Corruptions,
                hw \in SampleWords, hx \in Corruptions :
                DriverInput(r, f, tw, tx, hw, hx)
          /\ dpc = "call"
          /\ devices = {ADDRESS}
       \/ /\ \E f \in BusFaults, tw \in SampleWords, tx \in Corruptions,
                hw \in SampleWords :
                DriverInput("high", f, tw, tx, hw, 0)
          /\ dpc \in {"call_reset", "call_read_data"}
          /\ devices = {ADDRESS}
       \/ /\ \E f \in BusFaults : DriverInput("high", f, 0, 0, 0, 0)
          /\ dpc = "new"
          /\ devices \in ScanResults
    /\ bus_frame = <<>>
    /\ crc_temp = -1
    /\ crc_hum = -1
    /\ result = Failure("none")
    /\ bus_log = <<>>
    /\ LoopOff

\* One call of measure(): the device answers the read with its two counts,
\* each followed by its CRC.
Measure ==
    /\ dpc = "call"
    /\ \E m \in {measure(repeatability, bus_fault,
                         MkFrame(raw_temp, noise_temp, raw_hum, noise_hum))} :
           /\ result' = m.result
           /\ bus_log' = m.log
           /\ bus_frame' = m.data
           /\ crc_temp' = m.crc_temp
           /\ crc_hum' = m.crc_hum
    /\ dpc' = "done"
    /\ UNCHANGED <<repeatability, bus_fault, raw_temp, raw_hum, noise_temp,
                   noise_hum, devices>>
    /\ UNCHANGED <<configVars, loopVars, obsVars>>

\* One construction of the driver: SHT30(i2c)
Construct ==
    /\ dpc = "new"
    /\ \E c \in {__init__(devices)} :
           /\ result' = c.result
           /\ bus_log' = c.log
           /\ dpc' = IF c.result = Returned THEN "ready" ELSE "absent"
    /\ UNCHANGED <<repeatability, bus_fault, raw_temp, raw_hum, noise_temp,
                   noise_hum, devices, bus_frame, crc_temp, crc_hum>>
    /\ UNCHANGED <<configVars, loopVars, obsVars>>

\* One call of soft_reset()
SoftReset ==
    /\ dpc = "call_reset"
    /\ \E r \in {soft_reset(bus_fault)} :
           /\ result' = r.result
           /\ bus_log' = r.log
    /\ dpc' = "reset_done"
    /\ UNCHANGED <<repeatability, bus_fault, raw_temp, raw_hum, noise_temp,
                   noise_hum, devices, bus_frame, crc_temp, crc_hum>>
    /\ UNCHANGED <<configVars, loopVars, obsVars>>

\* One call of read_data() of the SHT30 class of main.py
ReadData ==
    /\ dpc = "call_read_data"
    /\ \E r \in {read_data(bus_fault,
                           MkFrame(raw_temp, noise_temp, raw_hum, noise_hum))} :
           /\ result' = r.result
           /\ bus_log' = r.log
           /\ bus_frame' = r.data
    /\ dpc' = "read_data_done"
    /\ UNCHANGED <<repeatability, bus_fault, raw_temp, raw_hum, noise_temp,
                   noise_hum, devices, crc_temp, crc_hum>>
    /\ UNCHANGED <<configVars, loopVars, obsVars>>

NextDriver == Measure \/ Construct \/ SoftReset \/ ReadData

SpecDriver == InitDriver /\ [][NextDriver]_vars

(***************************************************************************)
(* Properties                                                              *)
(***************************************************************************)
\* events of the last iteration
Events(kind, what) ==
    {i \in 1..Len(io) : io[i].ev = kind /\ io[i].what = what}

Happened(kind, what, ok) == \E i \in Events(kind, what) : io[i].ok = ok

\* the last iteration ran a full sensor cycle whose measurement succeeded
\* and whose temperature and humidity were both published
CycleSucceeded ==
    /\ Happened("measure", "sht30", TRUE)
    /\ Happened("publish", "temp", TRUE)
    /\ Happened("publish", "hum", TRUE)

C2_SuccessResets ==
    (pc \in {"loop", "reset"} /\ CycleSucceeded) =>
        /\ prev_error_count \in 0..(MAX_CONSECUTIVE_ERRORS - 1)
        /\ error_count = 0
        /\ pc = "loop"
        /\ reset_calls = 0
        /\ Events("reset", "machine") = {}

C2_Witness ==
    /\ CycleSucceeded
    /\ MAX_CONSECUTIVE_ERRORS = 3
    /\ prev_error_count = MAX_CONSECUTIVE_ERRORS - 1
    /\ error_count = 0

\* The scenario of C3 and C4: the first four motion samples of the run are
\* true, false, false, false, one second apart, with PIR_TIMEOUT = 2.
Scenario ==
    /\ PIR_TIMEOUT = 2
    /\ Len(samples) >= 4
    /\ <<samples[1].s, samples[2].s, samples[3].s, samples[4].s>> = <<1, 0, 0, 0>>
    /\ \A i \in 1..3 : samples[i + 1].t = samples[i].t + 1

EmittedInScenario(tag) == Cardinality({i \in 1..4 : samples[i].event = tag})

ActiveAfter == [i \in 1..4 |-> samples[i].active]

\* C3: in the scenario, with every publish succeeding, exactly one
\* motion-detected event and exactly one motion-cleared event are emitted.
C3_OneEntryOneExit ==
    (Scenario /\ "mqtt" \notin faults) =>
        /\ EmittedInScenario("detected") = 1
        /\ EmittedInScenario("cleared") = 1

C5_MotionEmission ==
    [][pc = "loop" =>
        LET attempts == {i \in 1..Len(io') :
                            io'[i].ev = "publish" /\ io'[i].what = "motion"}
        IN  /\ Cardinality(attempts) <= 1
            /\ \A i \in attempts :
                  /\ io'[i].ok => motion_state_sent' = motion_detected'
                  /\ ~io'[i].ok => motion_state_sent' # motion_detected'
                  /\ io'[i].val = BoolInt(motion_detected')
            /\ (motion_detected' = motion_detected
                /\ motion_state_sent = motion_detected) => attempts = {}
            /\ motion_events' <= 1]_vars

C5_Witness ==
    /\ motion_detected
    /\ motion_state_sent
    /\ motion_events = 1
    /\ Events("publish", "motion") = {}
    /\ Events("sample", "pir") # {}

\* the frame read back and its two words
FrameRead == dpc = "done" /\ bus_frame # <<>>
FrameTemp == bus_frame[1] * 256 + bus_frame[2]
FrameHum == bus_frame[4] * 256 + bus_frame[5]

\* C6: a frame in which either check byte differs from the checksum of its
\* two data bytes makes measure() fail: no Reading is returned, also when
\* the other word's check byte is right.
C6_NoPartialAcceptance ==
    (/\ FrameRead
     /\ \/ bus_frame[3] # RefCrc8(<<bus_frame[1], bus_frame[2]>>)
        \/ bus_frame[6] # RefCrc8(<<bus_frame[4], bus_frame[5]>>))
    => result = Failure("RuntimeError")

C6_Witness ==
    /\ FrameRead
    /\ bus_frame[3] = RefCrc8(<<bus_frame[1], bus_frame[2]>>)
    /\ bus_frame[6] # RefCrc8(<<bus_frame[4], bus_frame[5]>>)
    /\ result = Failure("RuntimeError")

\* C7: for every two bytes, _crc8 (masked once, at the end) gives a value in
\* 0..255 equal to the reference CRC-8 (seed 0xFF, polynomial 0x31, masked
\* after every shift); the checksum of 0x00 0x00 is 0x81.
C7_Crc8IsReference ==
    FrameRead =>
        /\ crc_temp \in Byte
        /\ crc_temp = RefCrc8(<<bus_frame[1], bus_frame[2]>>)
        /\ (FrameTemp = 0 => crc_temp = 129)
        /\ crc_hum # -1 =>
              /\ crc_hum \in Byte
              /\ crc_hum = RefCrc8(<<bus_frame[4], bus_frame[5]>>)
              /\ (FrameHum = 0 => crc_hum = 129)

C7_Witness ==
    /\ FrameRead
    /\ FrameTemp = 0
    /\ crc_temp = 129
    /\ FrameHum = 48879
    /\ crc_hum = 146

\* C8: for a frame with valid checksums measure() returns
\* temperature = -45 + 175 * temp_raw / 65535 with temp_raw = (b0 << 8) | b1:
\* -45 for count 0, 130 for count 65535, and no less than for the count below.
C8_Temperature ==
    (FrameRead /\ result.status = "ok") =>
        /\ result.temperature = 175 * FrameTemp - 45 * 65535
        /\ (FrameTemp = 0 => result.temperature = (0 - 45) * 65535)
        /\ (FrameTemp = 65535 => result.temperature = 130 * 65535)
        /\ (FrameTemp > 0 => TemperatureOf(FrameTemp - 1) <= result.temperature)

C8_Witness ==
    /\ FrameRead
    /\ result.status = "ok"
    /\ FrameTemp = 65535
    /\ result.temperature = 130 * 65535

\* C9: for a frame with valid checksums measure() returns
\* humidity = clamp(100 * hum_raw / 65535, 0, 100) with hum_raw = (b3 << 8) | b4:
\* 0 for count 0, 100 for count 65535, and always within [0, 100].
C9_Humidity ==
    (FrameRead /\ result.status = "ok") =>
        /\ result.humidity = Max(0, Min(100 * 65535, 100 * FrameHum))
        /\ (FrameHum = 0 => result.humidity = 0)
        /\ (FrameHum = 65535 => result.humidity = 100 * 65535)
        /\ result.humidity >= 0
        /\ result.humidity <= 100 * 65535

C9_Witness ==
    /\ FrameRead
    /\ result.status = "ok"
    /\ FrameHum = 65535
    /\ result.humidity = 100 * 65535

\* C10: the classification depends on the light level and the two
\* thresholds alone: below the low threshold dark, above the high threshold
\* bright, anything else normal, so a level equal to either threshold is
\* normal; the previous classification plays no part.
C10_Classification ==
    pc = "classified" =>
        /\ (current_light_state = "dark")
              <=> (light_level_percent < LIGHT_THRESHOLD_LOW * 65535)
        /\ (current_light_state = "bright")
              <=> (light_level_percent > LIGHT_THRESHOLD_HIGH * 65535)
        /\ (current_light_state = "normal")
              <=> (/\ light_level_percent >= LIGHT_THRESHOLD_LOW * 65535
                   /\ light_level_percent <= LIGHT_THRESHOLD_HIGH * 65535)

C10_Witness ==
    /\ pc = "classified"
    /\ light_level_percent = LIGHT_THRESHOLD_LOW * 65535
    /\ LIGHT_THRESHOLD_LOW = 10
    /\ last_light_state = "dark"
    /\ current_light_state = "normal"

\* the motion line as it was sampled in the iteration that just ended: its
\* first event
PirSampled(v) ==
    /\ Len(io) >= 1
    /\ io[1].ev = "sample" /\ io[1].what = "pir" /\ io[1].val = v

\* C11: an iteration that samples the motion line true at time t leaves the
\* state Active with last_motion_time = t, whether the state was Idle (it
\* becomes Active at that very sample, no debounce delay) or already Active
\* (last-seen is refreshed).
C11_TrueSample ==
    [][(pc = "loop" /\ PirSampled(1)') =>
          /\ motion_detected'
          /\ last_motion_time' = now]_vars

C11_Witness ==
    /\ PirSampled(1)
    /\ motion_detected
    /\ motion_state_sent
    /\ Events("publish", "motion") = {}
    /\ last_motion_time > 3

\* C12: an iteration that samples the motion line false at time t changes
\* the state from Active to Idle exactly when t - last_motion_time >=
\* PIR_TIMEOUT; an Idle state stays Idle, an Active state short of the
\* timeout stays Active, and last_motion_time is left alone in every case;
\* so once a true sample was seen the state is never Idle with less than the
\* timeout elapsed since it.
C12_FalseSample ==
    [][(pc = "loop" /\ PirSampled(0)') =>
          /\ last_motion_time' = last_motion_time
          /\ ~motion_detected => ~motion_detected'
          /\ motion_detected =>
                (~motion_detected' <=> now - last_motion_time >= PIR_TIMEOUT)
          /\ (~motion_detected' /\ last_motion_time' # 0) =>
                now - last_motion_time' >= PIR_TIMEOUT]_vars

C12_Witness ==
    /\ PirSampled(0)
    /\ ~motion_detected
    /\ ~motion_state_sent
    /\ last_motion_time >= 3
    /\ PIR_TIMEOUT = 3

\* the bus operations of a finished call, by kind
BusOps(kind) == {i \in 1..Len(bus_log) : bus_log[i].op = kind}

\* C13: measure(repeatability) does, in this order and nothing else: one
\* write of the 2-byte command to address 0x44, one wait of the settling
\* delay, one read of 6 bytes (a call cut short by a bus failure did a
\* prefix of that).  High, Medium and Low send three different commands and
\* wait 15, 6 and 4 ms; a read is always preceded by the full wait.
C13_MeasureOrder ==
    (dpc = "done" /\ repeatability \in {"high", "medium", "low"}) =>
        LET delay == CASE repeatability = "high" -> 15
                       [] repeatability = "medium" -> 6
                       [] repeatability = "low" -> 4
            cmd == CASE repeatability = "high" -> <<36, 0>>
                     [] repeatability = "medium" -> <<36, 11>>
                     [] repeatability = "low" -> <<36, 22>>
            full == <<[op |-> "writeto", addr |-> 68, bytes |-> cmd, n |-> 2],
                      [op |-> "sleep_ms", addr |-> 0, bytes |-> <<>>, n |-> delay],
                      [op |-> "readfrom", addr |-> 68, bytes |-> <<>>, n |-> 6]>>
        IN  /\ Len(bus_log) \in 1..3
            /\ bus_log = SubSeq(full, 1, Len(bus_log))
            /\ bus_fault = "none" => bus_log = full
            /\ bus_frame # <<>> => (bus_log = full /\ Len(bus_frame) = 6)
            /\ \A i \in BusOps("readfrom") :
                  i > 1 /\ bus_log[i - 1] = full[2]
            /\ Cardinality({CMD_MEASURE_HIGH, CMD_MEASURE_MED,
                            CMD_MEASURE_LOW}) = 3

C13_Witness ==
    /\ dpc = "done"
    /\ repeatability = "low"
    /\ result.status = "ok"
    /\ Len(bus_log) = 3
    /\ bus_log[2].n = 4

\* C14: a temperature/humidity measurement whose command write or frame
\* read failed on the bus never returns normally to its caller, neither
\* with a reading nor with a placeholder: it raises.
C14_BusFailureSurfaces ==
    (/\ \/ dpc = "done" /\ repeatability \in Repeatabilities
        \/ dpc = "read_data_done"
     /\ bus_fault \in {"write", "read"})
    => result.status \notin {"ok", "returned"}

\* C15: SHT30(i2c) scans the bus exactly once and does nothing else on it;
\* it succeeds exactly when 0x44 is among the addresses the scan reported,
\* and fails with RuntimeError (device not found) otherwise.
C15_Construction ==
    dpc \in {"ready", "absent"} =>
        /\ bus_log = <<ScanOp>>
        /\ BusOps("writeto") = {} /\ BusOps("readfrom") = {}
        /\ (dpc = "ready") <=> (68 \in devices)
        /\ (dpc = "ready") => result = Returned
        /\ (dpc = "absent") => result = Failure("RuntimeError")

C15_Witness ==
    /\ dpc = "absent"
    /\ devices = {69}
    /\ bus_log = <<ScanOp>>
    /\ result = Failure("RuntimeError")

\* C16: soft_reset() writes the 2-byte command 0x30 0xA2 to the device
\* once; when the write goes through it then waits 100 ms and returns;
\* when the write fails it raises RuntimeError; it never reads.
C16_SoftReset ==
    dpc = "reset_done" =>
        /\ BusOps("writeto") = {1}
        /\ bus_log[1] = [op |-> "writeto", addr |-> 68, bytes |-> <<48, 162>>,
                         n |-> 2]
        /\ BusOps("readfrom") = {}
        /\ IF bus_fault = "write"
           THEN /\ result = Failure("RuntimeError")
                /\ Len(bus_log) = 1
           ELSE /\ result = Returned
                /\ Len(bus_log) = 2
                /\ bus_log[2] = [op |-> "sleep_ms", addr |-> 0, bytes |-> <<>>,
                                 n |-> 100]

C16_Witness ==
    /\ dpc = "reset_done"
    /\ bus_fault = "none"
    /\ Len(bus_log) = 2
    /\ bus_log[2].n = 100
    /\ result = Returned

\* events of the last iteration of one kind, whatever their source
EventsOfKind(kind) == {i \in 1..Len(io) : io[i].ev = kind}

LightAttempted(events) ==
    \E i \in 1..Len(events) :
        events[i].ev = "publish" /\ events[i].what = "light"

\* a full sensor cycle ran in these events (its measurement was started)
CycleRan(events) ==
    \E i \in 1..Len(events) :
        events[i].ev = "measure" /\ events[i].what = "sht30"

\* C18 as claimed: in a cycle with a valid light sample a light publish is
\* attempted exactly when the classification differs from the published
\* one or the time since the last light publish exceeds
\* LIGHT_READING_INTERVAL.
C18_PublishWhenExceeded ==
    [][(pc = "loop" /\ LightSampled(io')) =>
          (LightAttempted(io') <=>
              \/ current_light_state' # last_light_state
              \/ now - last_light_reading > LIGHT_READING_INTERVAL)]_vars

\* C18 as amended: in a cycle with a valid light sample a light publish is
\* attempted exactly when the classification differs from the published
\* one or the time since the last light publish is at least
\* LIGHT_READING_INTERVAL; otherwise none is attempted.
C18_PublishWhenElapsed ==
    [][(pc = "loop" /\ LightSampled(io')) =>
          (LightAttempted(io') <=>
              \/ current_light_state' # last_light_state
              \/ now - last_light_reading >= LIGHT_READING_INTERVAL)]_vars

C18_Witness ==
    /\ LightSampled(io)
    /\ LightAttempted(io)
    /\ prev_light_state = current_light_state
    /\ prev_light_state = "dark"
    /\ last_light_reading >= 3 + LIGHT_READING_INTERVAL

\* C19: once a light publish has been made, a full sensor cycle that runs
\* when LIGHT_READING_INTERVAL has elapsed since the last light publish, in
\* which the light sensor does not fail and after which the loop goes on,
\* attempts a light publish, whatever the measurement did.
C19_HeartbeatBound ==
    [][(/\ pc = "loop" /\ pc' = "loop"
        /\ CycleRan(io')
        /\ ~Happened("sample", "light", FALSE)'
        /\ last_light_reading > 0
        /\ now - last_light_reading >= LIGHT_READING_INTERVAL)
       => LightAttempted(io')]_vars

\* C20: with light samples that stay within one ADC count of the low
\* threshold, the loop does not publish a changed classification in each of
\* two consecutive light-sampling cycles.
C20_Hysteresis ==
    (/\ pc \in {"loop", "reset"}
     /\ \A a \in ADCSamples :
           /\ a * 100 - LIGHT_THRESHOLD_LOW * SCALE < 100
           /\ LIGHT_THRESHOLD_LOW * SCALE - a * 100 < 100)
    => light_flips <= 1

\* the temperature/humidity publish of the last iteration failed
SensorPublishFailed ==
    Happened("publish", "temp", FALSE) \/ Happened("publish", "hum", FALSE)

\* C21: in a full sensor cycle whose measurement succeeded (and with no
\* failed motion publish in the iteration), each failed publish attempt,
\* temperature+humidity or light, adds 1 to the error counter, and the
\* counter is 0 afterwards only when no publish of the cycle failed; so a
\* failed light publish with a successful temperature/humidity publish
\* leaves the counter one higher.
C21_EveryPublishCounts ==
    (/\ pc \in {"loop", "reset"}
     /\ Happened("measure", "sht30", TRUE)
     /\ ~Happened("publish", "motion", FALSE))
    => LET failures == BoolInt(Happened("publish", "light", FALSE))
                       + BoolInt(SensorPublishFailed)
       IN  IF failures = 0 THEN error_count = 0
           ELSE error_count = prev_error_count + failures

\* C22 as claimed: a full sensor cycle whose measurement failed adds exactly
\* 1 to the error counter, samples no light and publishes no temperature,
\* humidity or light message, and the loop goes on to its next iteration.
C22_MeasurementFailure ==
    (pc \in {"loop", "reset"} /\ Happened("measure", "sht30", FALSE)) =>
        /\ error_count = prev_error_count + 1
        /\ Events("publish", "temp") = {}
        /\ Events("publish", "hum") = {}
        /\ Events("publish", "light") = {}
        /\ Events("sample", "light") = {}
        /\ pc = "loop"

\* C22 as amended: the same, except that the loop goes on to its next
\* iteration only when the incremented counter is still below
\* MAX_CONSECUTIVE_ERRORS; when it has reached it, machine.reset() is called.
C22_MeasurementFailureOrRestart ==
    (pc \in {"loop", "reset"} /\ Happened("measure", "sht30", FALSE)) =>
        /\ error_count = prev_error_count + 1
        /\ Events("publish", "temp") = {}
        /\ Events("publish", "hum") = {}
        /\ Events("publish", "light") = {}
        /\ Events("sample", "light") = {}
        /\ (pc = "loop") <=> (error_count < MAX_CONSECUTIVE_ERRORS)
        /\ (pc = "reset") <=> (error_count >= MAX_CONSECUTIVE_ERRORS)

C22_Witness ==
    /\ pc = "loop"
    /\ Happened("measure", "sht30", FALSE)
    /\ prev_error_count = 1
    /\ error_count = 2
    /\ MAX_CONSECUTIVE_ERRORS = 3

\* C23: an iteration (without a full sensor cycle) whose motion publish
\* attempt failed leaves the error counter one higher, and the published
\* flag different from the motion state.
C23_MotionFailureCounted ==
    (/\ pc \in {"loop", "reset"}
     /\ Happened("publish", "motion", FALSE)
     /\ Events("measure", "sht30") = {})
    => /\ error_count = prev_error_count + 1
       /\ motion_state_sent # motion_detected

\* C24: after an iteration whose motion publish attempt failed, an iteration
\* that leaves the motion state as it was makes no motion publish attempt.
C24_NoRetry ==
    [][(/\ pc = "loop"
        /\ Happened("publish", "motion", FALSE)
        /\ motion_detected' = motion_detected)
       => Events("publish", "motion")' = {}]_vars

\* C25: the loop is left only through machine.reset(), and that exactly when
\* the error counter has reached MAX_CONSECUTIVE_ERRORS: an iteration that
\* ends with the counter below it ends in the sleep before the next
\* iteration; one that takes the counter to it ends in machine.reset(),
\* called right after the failure that was counted, with no sample or
\* publish attempt in between.
C25_OnlyTheCeilingIsFatal ==
    (pc \in {"loop", "reset"} /\ Events("sample", "pir") # {}) =>
        /\ (pc = "reset") <=> (error_count >= MAX_CONSECUTIVE_ERRORS)
        /\ (pc = "loop") <=> (error_count < MAX_CONSECUTIVE_ERRORS)
        /\ pc = "loop" =>
              /\ io[Len(io)].ev = "sleep"
              /\ EventsOfKind("reset") = {}
        /\ pc = "reset" =>
              /\ EventsOfKind("reset") = {Len(io)}
              /\ error_count = prev_error_count + 1
              /\ ~io[Len(io) - 1].ok
              /\ \/ io[Len(io) - 1].ev = "measure"
                 \/ /\ io[Len(io) - 1].ev = "publish"
                    /\ io[Len(io) - 1].what \in {"temp", "hum"}

C25_Witness ==
    /\ pc = "reset"
    /\ SensorPublishFailed
    /\ error_count = 2
    /\ MAX_CONSECUTIVE_ERRORS = 2

\* C26: an iteration that runs a full sensor cycle leaves
\* last_sensor_reading equal to the time the iteration read at its start,
\* whether the cycle succeeded or failed.
C26_CycleTimestamp ==
    [][(pc = "loop" /\ CycleRan(io')) => last_sensor_reading' = now]_vars

\* C27: two consecutive calls of read_temperature_humidity() are at least
\* READING_INTERVAL apart, also when the earlier one failed.
C27_NoTightRetry ==
    [][(pc = "loop" /\ CycleRan(io') /\ last_measure_time >= 0) =>
          now - last_measure_time >= READING_INTERVAL]_vars

C27_Witness ==
    /\ pc = "loop"
    /\ Cardinality(Events("measure", "sht30")) = 1
    /\ error_count = 2
    /\ last_measure_time >= 3 + READING_INTERVAL
    /\ last_sensor_reading = 0

\* C28: an iteration measures and samples the light exactly when
\* READING_INTERVAL has elapsed since last_sensor_reading; when it has not,
\* the iteration measures nothing, samples no light, publishes no
\* temperature, humidity or light message and leaves the error counter as
\* it was.
C28_CycleWhenDue ==
    [][pc = "loop" =>
          LET due == now - last_sensor_reading >= READING_INTERVAL
          IN  /\ (CycleRan(io') /\ Events("sample", "light")' # {}) <=> due
              /\ ~due =>
                    /\ ~CycleRan(io')
                    /\ Events("sample", "light")' = {}
                    /\ Events("publish", "temp")' = {}
                    /\ Events("publish", "hum")' = {}
                    /\ Events("publish", "light")' = {}
                    /\ error_count' = error_count]_vars

\* C29: every iteration samples the motion line exactly once and first,
\* whether or not a sensor cycle is due, and a change of the motion state
\* made by that sample is followed at once, before any measurement, by its
\* publish attempt.
C29_MotionFirst ==
    [][pc = "loop" =>
          /\ Events("sample", "pir")' = {1}
          /\ motion_detected' # motion_detected =>
                /\ Len(io') >= 2
                /\ io'[2].ev = "publish" /\ io'[2].what = "motion"
                /\ io'[2].val = BoolInt(motion_detected')]_vars

\* C30: an iteration that is followed by another ends in the short fixed
\* sleep of 0.1 s, so the clock has advanced by at most one whole second
\* when the next iteration reads it, also after a failed measurement or
\* publish.
C30_ShortSleep ==
    [][(pc = "loop" /\ pc' = "loop") =>
          /\ io'[Len(io')] = Ev("sleep", "time", "0.1", 0, TRUE)
          /\ now' - now <= 1]_vars

\* C31: no retry within a cycle.  The events of one iteration hold at most
\* one measurement attempt and at most one call of the publish interface for
\* each of the temperature, humidity and light messages, whatever failed.
C31_NoRetryWithinCycle ==
    pc \in {"loop", "reset"} =>
        /\ Cardinality(Events("measure", "sht30")) <= 1
        /\ Cardinality(Events("publish", "temp")) <= 1
        /\ Cardinality(Events("publish", "hum")) <= 1
        /\ Cardinality(Events("publish", "light")) <= 1
        /\ Cardinality(Events("sample", "light")) <= 1

C31_Witness ==
    /\ Happened("measure", "sht30", TRUE)
    /\ Happened("publish", "light", FALSE)
    /\ Happened("publish", "temp", FALSE)
    /\ Cardinality(Events("publish", "temp")) = 1
    /\ Events("publish", "hum") = {}

\* the recorded samples at which the state went from Active to Idle
ClearedAt == {i \in 2..Len(samples) : samples[i - 1].active /\ ~samples[i].active}

C33_OnlySamplingMoves ==
    [][IF pc = "loop"
       THEN LET pir == io'[1].val
            IN  /\ io'[1].ev = "sample" /\ io'[1].what = "pir"
                /\ motion_detected' =
                      IF pir = 1 THEN TRUE
                      ELSE motion_detected
                           /\ now - last_motion_time < PIR_TIMEOUT
                /\ last_motion_time' =
                      IF pir = 1 THEN now ELSE last_motion_time
       ELSE UNCHANGED <<motion_detected, last_motion_time>>]_vars

C33_Witness ==
    /\ PirSampled(1)
    /\ Happened("publish", "motion", FALSE)
    /\ Happened("measure", "sht30", TRUE)
    /\ Happened("publish", "light", FALSE)
    /\ Happened("publish", "hum", FALSE)
    /\ error_count = prev_error_count + 1
    /\ motion_detected
    /\ last_motion_time > 3
    /\ ~motion_state_sent

\* the bus operations among the events of the last iteration
BusEventsOf(op) == {i \in 1..Len(io) : io[i].ev = "bus" /\ io[i].what = op}

\* C34: a measurement is not interleaved with anything else and is never
\* abandoned.  In every iteration that wrote the measurement command, the
\* command write, the wait, the 6-byte read and the outcome of measure() are
\* consecutive events (a prefix of them when the bus raised), so that no
\* motion sample, light sample, publish or other bus operation lies between
\* the write and the read; the write is followed by the outcome of the call,
\* which is a Reading only after all three bus operations succeeded and a
\* failure otherwise.
C34_MeasurementAtomic ==
    pc \in {"loop", "reset"} =>
        \A w \in BusEventsOf("writeto") :
            LET done == CHOOSE k \in w..Len(io) : io[k].ev = "measure"
            IN  /\ \E k \in w..Len(io) : io[k].ev = "measure"
                /\ EventsOfKind("bus") = w..(done - 1)
                /\ done - w \in {1, 3}
                /\ done - w = 3 =>
                      /\ io[w].ok
                      /\ io[w + 1].what = "sleep_ms" /\ io[w + 1].ok
                      /\ io[w + 2].what = "readfrom" /\ io[w + 2].val = 6
                /\ done - w = 1 => ~io[w].ok
                /\ io[done].tag \in {"ok", "RuntimeError"}
                /\ io[done].ok <=> io[done].tag = "ok"
                /\ io[done].ok =>
                      (done - w = 3 /\ \A k \in w..(done - 1) : io[k].ok)
                /\ (\E k \in w..(done - 1) : ~io[k].ok) => ~io[done].ok

C34_Witness ==
    /\ Happened("publish", "motion", TRUE)
    /\ Cardinality(EventsOfKind("bus")) = 3
    /\ Happened("bus", "readfrom", FALSE)
    /\ Happened("measure", "sht30", FALSE)
    /\ Events("sample", "light") = {}

\* C35: the motion state machine starts Idle with nothing published; as
\* long as every motion sample since the start was false the state is Idle,
\* the published flag is unset and no motion publish was attempted, let
\* alone emitted; and the first motion event a run emits is the Active-entry
\* (motion-detected) event.
C35_StartsIdle ==
    /\ pc \in {"start", "stopped"} => ~motion_seen
    /\ ~motion_seen =>
          /\ ~motion_detected
          /\ ~motion_state_sent
          /\ last_motion_time = 0
          /\ first_motion_event = "none"
          /\ Events("publish", "motion") = {}
    /\ first_motion_event \in {"none", "detected"}
    /\ first_motion_event = "detected" => motion_seen

C35_Witness ==
    /\ pc = "loop"
    /\ ~motion_seen
    /\ PirSampled(0)
    /\ now > 5
    /\ Happened("publish", "hum", TRUE)
    /\ ~motion_detected

\* C36: in every reachable state the error counter lies between 0 and
\* MAX_CONSECUTIVE_ERRORS inclusive; a step changes it only by adding 1 or by
\* resetting it to 0; and an iteration of the loop never starts with the
\* counter at or above the ceiling.
C36_CounterRange ==
    /\ [](/\ error_count >= 0
          /\ error_count <= MAX_CONSECUTIVE_ERRORS
          /\ pc = "loop" => error_count < MAX_CONSECUTIVE_ERRORS)
    /\ [][error_count' \in {error_count, error_count + 1, 0}]_vars

C36_Witness ==
    /\ pc = "reset"
    /\ MAX_CONSECUTIVE_ERRORS = 3
    /\ error_count = MAX_CONSECUTIVE_ERRORS
    /\ prev_error_count = MAX_CONSECUTIVE_ERRORS - 1
    /\ Happened("publish", "temp", TRUE)
    /\ Happened("publish", "hum", FALSE)

\* C37: a failed light publish leaves last_light_state and
\* last_light_reading unchanged, and so does every step without a light
\* publish; a successful one sets them to the current classification and to
\* the time of its cycle.  Hence after a failed attempt the next cycle that
\* classifies a light sample differently from the last published
\* classification attempts the publish again.
C37_LightPublishBookkeeping ==
    [][IF pc = "loop"
       THEN /\ IF \E i \in LightPublishes(io') : io'[i].ok
               THEN /\ last_light_state' = current_light_state'
                    /\ last_light_reading' = now
               ELSE UNCHANGED <<last_light_state, last_light_reading>>
            /\ (/\ light_failures > 0
                /\ LightSampled(io')
                /\ current_light_state' # last_light_state)
               => LightPublishes(io') # {}
       ELSE UNCHANGED <<last_light_state, last_light_reading>>]_vars

C37_Witness ==
    /\ pc = "loop"
    /\ light_failures = 2
    /\ Happened("publish", "light", FALSE)
    /\ last_light_state = "dark"
    /\ current_light_state = "normal"
    /\ last_light_reading = 3
    /\ now > 6

\* C38: in a cycle whose measurement succeeded, the temperature message is
\* published once and before the humidity message; the humidity publish is
\* attempted exactly when the temperature publish succeeded, and directly
\* after it; the cycle counts as a success (error counter 0) exactly when
\* both publishes succeeded, so a humidity failure after a delivered
\* temperature message adds 1 to the error counter.
C38_TemperatureThenHumidity ==
    (pc \in {"loop", "reset"} /\ Happened("measure", "sht30", TRUE)) =>
        /\ Cardinality(Events("publish", "temp")) = 1
        /\ \A t \in Events("publish", "temp") :
              /\ io[t].ok => Events("publish", "hum") = {t + 1}
              /\ ~io[t].ok => Events("publish", "hum") = {}
        /\ error_count = 0
              <=> (Happened("publish", "temp", TRUE)
                   /\ Happened("publish", "hum", TRUE))
        /\ SensorPublishFailed => error_count = prev_error_count + 1

C38_Witness ==
    /\ pc = "loop"
    /\ Happened("measure", "sht30", TRUE)
    /\ Happened("publish", "temp", TRUE)
    /\ Happened("publish", "hum", FALSE)
    /\ prev_error_count = 0
    /\ error_count = 1

\* C39: under fair scheduling of the loop with an advancing clock, once the
\* motion line reads false at every sample, the motion state becomes Idle
\* unless the firmware restarts first, and an Idle state stays Idle from
\* then on.
C39_EventuallyIdle ==
    /\ quiet ~> (~motion_detected \/ pc = "reset")
    /\ [][(quiet /\ ~motion_detected) => ~motion_detected']_vars

C39_Witness ==
    /\ pc = "loop"
    /\ quiet
    /\ motion_seen
    /\ PirSampled(0)
    /\ ~motion_detected
    /\ now - last_motion_time = PIR_TIMEOUT

====
